---- MODULE Spec2Model ----
(***************************************************************************)
(* The Cache Service of treehouseaustin/contentful: the entry store and    *)
(* its two derived indexes (route table, content-type index), in the two   *)
(* backends the repository ships:                                          *)
(*   - the in-memory one  (cache-manager; src/lib/wrapper.js 201-378)      *)
(*   - the networked one  (redis;         src/lib/wrapper.js 380-528)      *)
(* A Cache Service instance is built over one backend; `backend` records   *)
(* which.  Every public operation is one action; the state between two     *)
(* actions is a quiescent state (no call in flight).                       *)
(***************************************************************************)
EXTENDS Integers, Sequences, FiniteSets, TLC

\* ---------------------------------------------------------------- bounds
MaxBatch == 2     \* longest page handed to updateEntries
MaxWork == 3      \* entries handed in plus destroy calls, over the run
MaxTotal == 3     \* most entries the remote lists (response.total)
MaxLimit == 2     \* largest page size handed to syncPaged

\* The values entries are built from: sys.id, sys.contentType.sys.id and
\* fields.slug[this.lang] (two of each, so that an entry can change its type
\* or slug and two entries can share a slug).
Ids   == {"A1", "B2"}
Types == {"page", "press"}
Slugs == {"home", "terms-conditions"}

\* fields.slug of an entry: NoSlug = the entry has no slug field;
\* SlugNoLang = a slug field with no value in the configured language
\* (fields.slug[this.lang] is undefined, and as a property key "undefined");
\* otherwise the slug string.
NoSlug     == "<none>"
SlugNoLang == "undefined"
SlugFields == Slugs \cup {NoSlug, SlugNoLang}

\* An entry document: sys.id, sys.contentType.sys.id, fields.slug.
Entries == [kind : {"entry"}, id : Ids, type : Types, slug : SlugFields]

\* A document with sys.id and fields but no sys.contentType (NoType).
NoType    == "<none>"
Malformed == [kind : {"entry"}, id : Ids, type : {NoType}, slug : {NoSlug}]

NonEntry(k) == [kind |-> k, id |-> "", type |-> "", slug |-> ""]
\* What a key that is not in the backend reads as (cache.get / client.get).
Nil         == NonEntry("nil")
\* The results of entry(id) on a miss: undefined (in-memory), {} (networked).
Undefined   == NonEntry("undefined")
EmptyObject == NonEntry("object")

\* ------------------------------------------------------ sequence helpers
Range(s) == {s[i] : i \in 1..Len(s)}

RECURSIVE Count(_, _)
\* how many times x occurs in the sequence s
Count(s, x) ==
  IF s = <<>> THEN 0
  ELSE (IF Head(s) = x THEN 1 ELSE 0) + Count(Tail(s), x)

\* every enumeration (without repetition) of the finite set S
RECURSIVE Orders(_)
Orders(S) ==
  IF S = {} THEN {<<>>}
  ELSE UNION {{<<x>> \o p : p \in Orders(S \ {x})} : x \in S}

\* ------------------------------------------------- JS objects as key lists
\* A route object ({slug: [typeId, entryId], ...}) is the list of its
\* properties in property order; each slug occurs at most once.
RouteKeys(obj) == {obj[i].slug : i \in 1..Len(obj)}

\* obj[k] = [t, i]: an existing property keeps its place, a new one is added
\* at the end.
RoutePut(obj, k, t, i) ==
  IF k \in RouteKeys(obj)
  THEN [j \in 1..Len(obj) |->
          IF obj[j].slug = k THEN [slug |-> k, type |-> t, id |-> i] ELSE obj[j]]
  ELSE Append(obj, [slug |-> k, type |-> t, id |-> i])

\* {...a, ...b}
RECURSIVE SpreadMerge(_, _)
SpreadMerge(a, b) ==
  IF b = <<>> THEN a
  ELSE SpreadMerge(RoutePut(a, Head(b).slug, Head(b).type, Head(b).id), Tail(b))

\* The mapping a route object denotes: the set of <<slug, typeId, entryId>>.
RoutePairs(obj) == {<<obj[j].slug, obj[j].type, obj[j].id>> : j \in 1..Len(obj)}

\* ================================================== in-memory backend
\* A state of the instance is [store, types, routes].  '$types' and '$routes'
\* start out unset; every reader takes `|| {}`, and a type with no key reads
\* as `|| []`, so an unset value is held as the empty object / empty array.

\* entry(entryId): cache.get of a missing key is undefined
memEntry(st, entryId) ==
  IF st.store[entryId] = Nil THEN Undefined ELSE st.store[entryId]

\* routes()
memRoutes(st) == st.routes

\* update(entry): cache.set(entry.sys.id, entry); onUpdate(entry)
memUpdate(st, entry) == [st EXCEPT !.store[entry.id] = entry]

\* (variant of memUpdateRoutes: the spread the other way round,
\* {...routes, ...existing})
memUpdateRoutes_ExistingWins(st, routes, merge) ==
  IF ~merge THEN [st EXCEPT !.routes = routes]
  ELSE [st EXCEPT !.routes = SpreadMerge(routes, memRoutes(st))]

\* updateRoutes(routes, merge)
memUpdateRoutes(st, routes, merge) ==
  IF ~merge THEN [st EXCEPT !.routes = routes]
  ELSE [st EXCEPT !.routes = SpreadMerge(memRoutes(st), routes)]

\* the reduce of updateEntries: entries with a slug field, keyed by
\* fields.slug[this.lang] (the key "undefined" when the language is missing)
RECURSIVE memBatchRoutes(_, _)
memBatchRoutes(all, entries) ==
  IF entries = <<>> THEN all
  ELSE LET e == Head(entries) IN
       memBatchRoutes(IF e.slug # NoSlug THEN RoutePut(all, e.slug, e.type, e.id)
                      ELSE all,
                      Tail(entries))

\* (variant of memIndexEntries: the ID is pushed without the includes() test)
RECURSIVE memIndexEntries_NoIncludes(_, _)
memIndexEntries_NoIncludes(st, entries) ==
  IF entries = <<>> THEN st
  ELSE LET e  == Head(entries)
           ty == [st.types EXCEPT ![e.type] = Append(@, e.id)]
       IN memIndexEntries_NoIncludes([st EXCEPT !.types = ty,
                                         !.store[e.id] = e], Tail(entries))

\* the entries.map of updateEntries: index under the type unless already
\* included, then update(entry)
RECURSIVE memIndexEntries(_, _)
memIndexEntries(st, entries) ==
  IF entries = <<>> THEN st
  ELSE LET e  == Head(entries)
           ty == IF e.id \in Range(st.types[e.type]) THEN st.types
                 ELSE [st.types EXCEPT ![e.type] = Append(@, e.id)]
       IN memIndexEntries(memUpdate([st EXCEPT !.types = ty], e), Tail(entries))

\* updateEntries(entries)
memUpdateEntries(st, entries) ==
  memIndexEntries(memUpdateRoutes(st, memBatchRoutes(<<>>, entries), TRUE), entries)

\* deleteRoute(entryId): _.findKey takes the first property whose value
\* names the entry, and only that one is deleted
memDeleteRoute(st, entryId) ==
  LET routes == memRoutes(st)
      hits   == {j \in 1..Len(routes) : routes[j].id = entryId}
  IN IF hits = {} THEN st
     ELSE LET key == CHOOSE j \in hits : \A k \in hits : j <= k
          IN [st EXCEPT !.routes =
                [j \in 1..(Len(routes) - 1) |->
                   IF j < key THEN routes[j] ELSE routes[j + 1]]]

\* destroy(entryId) throws at entry.sys when the entry is not cached, and at
\* entry.sys.contentType.sys when the document has no content type
memDestroyThrows(st, entryId) ==
  \/ memEntry(st, entryId) = Undefined
  \/ memEntry(st, entryId).type = NoType

\* destroy(entryId): cache.del, deleteRoute, then the type's member array
\* filtered and written back; nothing is written when it throws
memDestroy(st, entryId) ==
  LET entry == memEntry(st, entryId)
      s1    == memDeleteRoute([st EXCEPT !.store[entryId] = Nil], entryId)
  IN IF memDestroyThrows(st, entryId) THEN st
     ELSE [s1 EXCEPT !.types[entry.type] =
                        SelectSeq(@, LAMBDA id : id # entry.id)]

\* entriesOfType(types, filter): the member arrays concatenated, the filter
\* applied to the IDs, each ID resolved with entry()
RECURSIVE memTypeMembers(_, _)
memTypeMembers(st, types) ==
  IF types = <<>> THEN <<>>
  ELSE st.types[Head(types)] \o memTypeMembers(st, Tail(types))

\* (filter, the lodash predicate, is given as its truth table over the IDs;
\* without a filter every ID is kept)
NoFilter == [id \in Ids |-> TRUE]

\* (variant of memEntriesOfType: only the first type is looked up)
memEntriesOfType_FirstType(st, types, filter) ==
  LET ids == SelectSeq(memTypeMembers(st, SubSeq(types, 1, 1)),
                       LAMBDA id : filter[id])
  IN [j \in 1..Len(ids) |-> memEntry(st, ids[j])]

memEntriesOfType(st, types, filter) ==
  LET ids == SelectSeq(memTypeMembers(st, types), LAMBDA id : filter[id])
  IN [j \in 1..Len(ids) |-> memEntry(st, ids[j])]

\* ==================================================== networked backend
\* A state is [store, types, routes]: the string keys, the sets '$type.<t>'
\* and the set '$routes'.  A transaction (multi ... exec) is applied as a
\* whole, its commands in the order they were queued.

\* JSON.stringify(entry) / JSON.parse(text)
JSONstringify(entry) == [entry EXCEPT !.kind = "json"]
JSONparse(text) == IF text = Nil THEN Nil ELSE [text EXCEPT !.kind = "entry"]

\* [route, type, entry.sys.id].join(':') and route.split(':')
RouteJoin(route, type, id) == <<route, type, id>>
RouteSplit(member) == [slug |-> member[1], type |-> member[2], id |-> member[3]]

\* entry.fields.slug && entry.fields.slug[this.lang], when truthy
redisRouteOf(entry) == entry.slug \in Slugs

\* entry(entryId): JSON.parse(await client.get(entryId)) || {}
redisEntry(st, entryId) ==
  LET entry == JSONparse(st.store[entryId])
  IN IF entry = Nil THEN EmptyObject ELSE entry

\* (variant of redisUpdate: the document is patched into the stored one, a
\* missing slug field keeping the stored document's)
redisUpdate_Patch(st, entry) ==
  LET old == JSONparse(st.store[entry.id])
      doc == IF old # Nil /\ entry.slug = NoSlug
             THEN [entry EXCEPT !.slug = old.slug] ELSE entry
  IN [store  |-> [st.store EXCEPT ![entry.id] = JSONstringify(doc)],
      types  |-> [st.types EXCEPT ![entry.type] = @ \cup {entry.id}],
      routes |-> IF redisRouteOf(entry)
                 THEN st.routes \cup {RouteJoin(entry.slug, entry.type, entry.id)}
                 ELSE st.routes]

\* update(entry): sadd to the type set, sadd of the route, set of the document
redisUpdate(st, entry) ==
  [store  |-> [st.store EXCEPT ![entry.id] = JSONstringify(entry)],
   types  |-> [st.types EXCEPT ![entry.type] = @ \cup {entry.id}],
   routes |-> IF redisRouteOf(entry)
              THEN st.routes \cup {RouteJoin(entry.slug, entry.type, entry.id)}
              ELSE st.routes]

\* what update(entry) returns / resolves with: `return entry`
memUpdateReturns(entry) == entry
redisUpdateReturns(entry) == entry

\* updateEntries(entries): Promise.all(entries.map(update)); every update
\* queues and sends its transaction in array order on the one connection
RECURSIVE redisUpdateEntries(_, _)
redisUpdateEntries(st, entries) ==
  IF entries = <<>> THEN st
  ELSE redisUpdateEntries(redisUpdate(st, Head(entries)), Tail(entries))

\* the guard of destroy: if (!entry || !entry.sys) return
redisDestroySkips(st, entryId) == redisEntry(st, entryId) = EmptyObject

\* (variant of redisDestroy: the srem from the type set is left out)
redisDestroy_NoTypeSrem(st, entryId) ==
  LET entry == redisEntry(st, entryId)
  IN IF redisDestroySkips(st, entryId) THEN st
     ELSE [store  |-> [st.store EXCEPT ![entryId] = Nil],
           types  |-> st.types,
           routes |-> IF redisRouteOf(entry)
                      THEN st.routes \ {RouteJoin(entry.slug, entry.type, entry.id)}
                      ELSE st.routes]

\* destroy(entryId): del, srem from the entry's type set, srem of the route
\* built from the stored document
redisDestroy(st, entryId) ==
  LET entry == redisEntry(st, entryId)
  IN IF redisDestroySkips(st, entryId) THEN st
     ELSE [store  |-> [st.store EXCEPT ![entryId] = Nil],
           types  |-> [st.types EXCEPT ![entry.type] = @ \ {entry.id}],
           routes |-> IF redisRouteOf(entry)
                      THEN st.routes \ {RouteJoin(entry.slug, entry.type, entry.id)}
                      ELSE st.routes]

\* smembers(key): a set has no order; the reply lists the members in some
\* order the server chooses
Smembers(set) == Orders(set)

\* the reduce of routes() over one smembers reply
RECURSIVE redisRoutesReduce(_, _)
redisRoutesReduce(result, reply) ==
  IF reply = <<>> THEN result
  ELSE LET r == RouteSplit(Head(reply))
       IN redisRoutesReduce(RoutePut(result, r.slug, r.type, r.id), Tail(reply))

\* routes(): the objects it can return, one per possible reply
redisRoutes(st) == {redisRoutesReduce(<<>>, reply) : reply \in Smembers(st.routes)}

\* entriesOfType(types): the ID lists it can obtain (one smembers reply per
\* type, concatenated) ...
RECURSIVE redisTypeMembers(_, _)
redisTypeMembers(st, types) ==
  IF types = <<>> THEN {<<>>}
  ELSE {a \o b : a \in Smembers(st.types[Head(types)]),
                 b \in redisTypeMembers(st, Tail(types))}

\* ... each ID resolved with entry()
redisEntriesOfType(st, types) ==
  {[j \in 1..Len(ids) |-> redisEntry(st, ids[j])] :
     ids \in redisTypeMembers(st, types)}

VARIABLES
  backend,   \* "memory" | "redis": the store the instance was built over
  store,     \* entry documents by ID (Nil = no such key)
  mTypes,    \* in-memory '$types' value: type -> array of entry IDs
  mRoutes,   \* in-memory '$routes' value: the object's properties, in order
  rTypes,    \* networked: the sets '$type.<t>'
  rRoutes,   \* networked: the set '$routes' of slug:type:id members
  last,      \* the operation that completed last (history)
  work,      \* entries handed in plus destroy calls so far
  sync,      \* ContentfulCache.sync(): the paging driver and its cache writes
  inflight,  \* calls in flight: each one's position and what it has read
  hooks,     \* the onUpdate / onDestroy calls of the last operation
  handles,   \* how many backend handles the instance has created
  env        \* sails.config.contentful.env, as the webhook action reads it

vars ==
  <<backend, store, mTypes, mRoutes, rTypes, rRoutes, last, work, sync,
    inflight, hooks, handles, env>>

\* the instance's state as the operators above take it
memState   == [store |-> store, types |-> mTypes, routes |-> mRoutes]
redisState == [store |-> store, types |-> rTypes, routes |-> rRoutes]

\* what `last` records: the operation, the entry it was given (update) or
\* found (destroy), the ID it was given, the page length (updateEntries),
\* whether its promise resolved, and the entry given to the call before it
\* when that was an update; fault (the backend command that failed), remote
\* (what the remote returned), batch (the page handed in, or the array a
\* read returned), types and filter (the arguments of entriesOfType) are
\* recorded by the operations further down
Done(op, e, id, n, ok) ==
  [op |-> op, e |-> e, id |-> id, n |-> n, ok |-> ok,
   before |-> IF last.op = "update" THEN last.e ELSE Nil,
   fault |-> "none", remote |-> Nil, batch |-> <<>>,
   topic |-> "", call |-> "none", types |-> <<>>, filter |-> "none"]

\* no sync has been started
NoSync ==
  [status |-> "idle", limit |-> 0, listing |-> <<>>, requested |-> <<>>,
   fed |-> <<>>, pending |-> <<>>]

\* the cache service used on its own: no sails configuration
NoEnv == "<none>"

\* (variant of NewHandle: nothing is created)
NewHandle_None(n) == n

\* manager.caching(...) / redis.createClient(config): one more handle
NewHandle(n) == n + 1

\* constructor: an empty store (the tests flush the database first), and
\* this.cache / this.client assigned the handle it creates
Init ==
  /\ backend \in {"memory", "redis"}
  /\ store = [i \in Ids |-> Nil]
  /\ mTypes = [t \in Types |-> <<>>]
  /\ mRoutes = <<>>
  /\ rTypes = [t \in Types |-> {}]
  /\ rRoutes = {}
  /\ last = [op |-> "new", e |-> Nil, id |-> "", n |-> 0, ok |-> TRUE,
             before |-> Nil, fault |-> "none", remote |-> Nil, batch |-> <<>>,
             topic |-> "", call |-> "none", types |-> <<>>,
             filter |-> "none"]
  /\ work = 0
  /\ sync = NoSync
  /\ inflight = <<>>
  /\ hooks = <<>>
  /\ handles = NewHandle(0)
  /\ env = NoEnv

MemSet(st) ==
  /\ store' = st.store
  /\ mTypes' = st.types
  /\ mRoutes' = st.routes
  /\ UNCHANGED <<backend, env, rTypes, rRoutes>>

RedisSet(st) ==
  /\ store' = st.store
  /\ rTypes' = st.types
  /\ rRoutes' = st.routes
  /\ UNCHANGED <<backend, env, mTypes, mRoutes>>

\* the run is cut off once MaxWork entries and destroys have been handled
Issue(n) == work + n <= MaxWork /\ work' = work + n

MemUpdate(entry) ==
  /\ backend = "memory" /\ Issue(1)
  /\ MemSet(memUpdate(memState, entry))
  /\ last' = Done("update", entry, entry.id, 1, TRUE)
  /\ UNCHANGED <<sync, handles, hooks, inflight>>

MemUpdateEntries(entries) ==
  /\ backend = "memory" /\ Issue(Len(entries))
  /\ MemSet(memUpdateEntries(memState, entries))
  /\ last' = Done("updateEntries", Nil, "", Len(entries), TRUE)
  /\ UNCHANGED <<sync, handles, hooks, inflight>>

MemDestroy(entryId) ==
  /\ backend = "memory" /\ Issue(1)
  /\ MemSet(memDestroy(memState, entryId))
  /\ last' = Done("destroy", memEntry(memState, entryId), entryId, 0,
                  ~memDestroyThrows(memState, entryId))
  /\ UNCHANGED <<sync, handles, hooks, inflight>>

RedisUpdate(entry) ==
  /\ backend = "redis" /\ Issue(1)
  /\ RedisSet(redisUpdate(redisState, entry))
  /\ last' = Done("update", entry, entry.id, 1, TRUE)
  /\ UNCHANGED <<sync, handles, hooks, inflight>>

RedisUpdateEntries(entries) ==
  /\ backend = "redis" /\ Issue(Len(entries))
  /\ RedisSet(redisUpdateEntries(redisState, entries))
  /\ last' = Done("updateEntries", Nil, "", Len(entries), TRUE)
  /\ UNCHANGED <<sync, handles, hooks, inflight>>

RedisDestroy(entryId) ==
  /\ backend = "redis" /\ Issue(1)
  /\ RedisSet(redisDestroy(redisState, entryId))
  /\ last' = Done("destroy", redisEntry(redisState, entryId), entryId, 0, TRUE)
  /\ UNCHANGED <<sync, handles, hooks, inflight>>

\* the pages that still fit: at most MaxBatch entries, within the cut-off
Pages == UNION {[1..n -> Entries] : n \in 0..MaxBatch}
FittingPages ==
  UNION {[1..n -> Entries] :
           n \in 0..(IF MaxWork - work < MaxBatch THEN MaxWork - work ELSE MaxBatch)}

Next ==
  \/ \E entry \in Entries : MemUpdate(entry)
  \/ \E entries \in FittingPages : MemUpdateEntries(entries)
  \/ \E entryId \in Ids : MemDestroy(entryId)
  \/ \E entry \in Entries : RedisUpdate(entry)
  \/ \E entries \in FittingPages : RedisUpdateEntries(entries)
  \/ \E entryId \in Ids : RedisDestroy(entryId)

Spec == Init /\ [][Next]_vars

TypeOK ==
  /\ backend \in {"memory", "redis"}
  /\ work \in 0..MaxWork

\* ============================================ the instance, either backend
\* this.cache = new CacheService(config.cache): the operations of whichever
\* class the instance is, on a state st of that backend.
Update(st, entry) ==
  IF backend = "memory" THEN memUpdate(st, entry) ELSE redisUpdate(st, entry)

UpdateEntries(st, entries) ==
  IF backend = "memory" THEN memUpdateEntries(st, entries)
  ELSE redisUpdateEntries(st, entries)

Destroy(st, entryId) ==
  IF backend = "memory" THEN memDestroy(st, entryId)
  ELSE redisDestroy(st, entryId)

\* entry(entryId)
EntryOf(st, entryId) ==
  IF backend = "memory" THEN memEntry(st, entryId) ELSE redisEntry(st, entryId)

\* the mappings routes() can return
RoutesOf(st) ==
  IF backend = "memory" THEN {RoutePairs(memRoutes(st))}
  ELSE {RoutePairs(obj) : obj \in redisRoutes(st)}

\* the arrays entriesOfType(types) can return (no filter)
EntriesOfTypeOf(st, types) ==
  IF backend = "memory" THEN {memEntriesOfType(st, types, NoFilter)}
  ELSE redisEntriesOfType(st, types)

\* the type index: how many times entryId is listed under type
ListedCount(st, type, entryId) ==
  IF backend = "memory" THEN Count(st.types[type], entryId)
  ELSE IF entryId \in st.types[type] THEN 1 ELSE 0

\* the route records held, whatever their order
RouteTable(st) ==
  IF backend = "memory" THEN RoutePairs(st.routes)
  ELSE {<<RouteSplit(m).slug, RouteSplit(m).type, RouteSplit(m).id>> : m \in st.routes}

\* the current state of the instance
State == IF backend = "memory" THEN memState ELSE redisState

IsEntry(doc) == doc.kind = "entry"

\* how many elements of the array docs are the entry with this ID
CountId(docs, entryId) ==
  Cardinality({j \in 1..Len(docs) : IsEntry(docs[j]) /\ docs[j].id = entryId})

\* ------------------------------------------------------------------ C1
\* C1: Type Index invariant - in every quiescent state, entry ID e is listed
\* under type t if and only if the entry store holds an entry with ID e
\* whose content type is t.
C1_TypeIndexInvariant ==
  \A e \in Ids, t \in Types :
    (ListedCount(State, t, e) > 0)
      <=> (IsEntry(EntryOf(State, e)) /\ EntryOf(State, e).type = t)

\* ------------------------------------------------------------------ C2
\* C2: Route Table invariant - in every quiescent state, every route
\* slug -> (typeId, entryId) that routes() returns points to an entry that is
\* in the entry store, whose content type is typeId and whose slug is slug.
C2_RouteTableInvariant ==
  \A routes \in RoutesOf(State) :
    \A r \in routes :
      LET doc == EntryOf(State, r[3])
      IN IsEntry(doc) /\ doc.type = r[2] /\ doc.slug = r[1]

\* ------------------------------------------------------------------ C3
\* C3: once update(e) has completed for an entry e that declares a slug in
\* the configured language, routes() has the key e.slug with the value
\* (e.contentType, e.id).
C3_UpdateAddsRoute ==
  (last.op = "update" /\ last.e.slug \in Slugs)
    => \A routes \in RoutesOf(State) :
         <<last.e.slug, last.e.type, last.e.id>> \in routes

\* ------------------------------------------------------------------ C4
\* C4: once update(e) has completed, entriesOfType(e.contentType) contains
\* the entry with ID e.id exactly once.
C4_UpdateListsOnce ==
  (last.op = "update")
    => \A docs \in EntriesOfTypeOf(State, <<last.e.type>>) :
         CountId(docs, last.e.id) = 1

C6_DestroyRemovesRoutes ==
  (last.op = "destroy" /\ last.ok)
    => \A routes \in RoutesOf(State) : \A r \in routes : r[3] # last.id

\* ------------------------------------------------------------------ C7
\* what a caller can observe of a state: entry(id) for every ID, routes(),
\* entriesOfType(t) for every type
Observable(st) ==
  [entry  |-> [id \in Ids |-> EntryOf(st, id)],
   routes |-> RoutesOf(st),
   ofType |-> [t \in Types |-> EntriesOfTypeOf(st, <<t>>)]]

TypeIndex(st) ==
  [t \in Types |-> {id \in Ids : ListedCount(st, t, id) > 0}]

\* C8: batch equivalence - from the same starting state,
\* updateEntries([e1, e2]) ends with the same route table and the same type
\* index as update(e1) followed by update(e2).
C8_BatchEquivalence ==
  \A e1, e2 \in Entries :
    LET batch == UpdateEntries(State, <<e1, e2>>)
        calls == Update(Update(State, e1), e2)
    IN /\ RouteTable(batch) = RouteTable(calls)
       /\ RoutesOf(batch) = RoutesOf(calls)
       /\ TypeIndex(batch) = TypeIndex(calls)

\* ------------------------------------------------------------------ C9
\* C9: last write wins on a shared slug - after update(e1) and then
\* update(e2), of different IDs and the same slug s, routes()[s] is
\* (e2.contentType, e2.id) and the table holds exactly one route for s.
C9_LastWriteWins ==
  (/\ last.op = "update" /\ IsEntry(last.before)
   /\ last.before.id # last.e.id
   /\ last.e.slug \in Slugs /\ last.before.slug = last.e.slug)
    => /\ \A routes \in RoutesOf(State) :
            {r \in routes : r[1] = last.e.slug}
              = {<<last.e.slug, last.e.type, last.e.id>>}
       /\ Cardinality({r \in RouteTable(State) : r[1] = last.e.slug}) = 1

\* ----------------------------------------------------------------- C10
\* the state of a freshly constructed instance (see Init)
EmptyState ==
  IF backend = "memory"
  THEN [store |-> [i \in Ids |-> Nil], types |-> [t \in Types |-> <<>>],
        routes |-> <<>>]
  ELSE [store |-> [i \in Ids |-> Nil], types |-> [t \in Types |-> {}],
        routes |-> {}]

\* update replayed over the stored entries, taken in the order ids
RECURSIVE Replay(_, _)
Replay(st, ids) ==
  IF ids = <<>> THEN st
  ELSE Replay(Update(st, EntryOf(State, Head(ids))), Tail(ids))

\* C10: the route table and the type index are derived state - in every
\* quiescent state they equal the ones obtained from empty indexes by
\* replaying update over every entry that is in the entry store.
C10_Reconstructable ==
  \A ids \in Orders({id \in Ids : IsEntry(EntryOf(State, id))}) :
    LET replayed == Replay(EmptyState, ids)
    IN /\ RouteTable(State) = RouteTable(replayed)
       /\ RoutesOf(State) = RoutesOf(replayed)
       /\ TypeIndex(State) = TypeIndex(replayed)

\* ================================================ a failing backend command
\* The in-memory service runs over whatever cache-manager store the
\* configuration names, the networked one over a redis connection; either
\* can fail one command of a call.  A promise the code does not await is
\* dropped when it rejects.

\* update(entry) when cache.set rejects: nothing is stored, and the call
\* still returns the entry (the promise of set is not awaited)
memUpdateFailing(st, entry) == st

\* the backend commands of the in-memory destroy, in the order it issues them
MemDestroySteps == {"entry.get", "del", "deleteRoute", "types.get", "types.set"}

\* destroy(entryId) rejects when the awaited command fails (or entry.sys
\* throws); del, deleteRoute and the final set are not awaited
memDestroyRejects(st, entryId, failed) ==
  failed \in {"entry.get", "types.get"} \/ memDestroyThrows(st, entryId)

\* destroy(entryId) with the command `failed` failing: the commands before it
\* and the un-awaited ones around it still take effect
memDestroyFailing(st, entryId, failed) ==
  LET entry      == memEntry(st, entryId)
      afterDel   == IF failed = "del" THEN st
                    ELSE [st EXCEPT !.store[entryId] = Nil]
      afterRoute == IF failed = "deleteRoute" THEN afterDel
                    ELSE memDeleteRoute(afterDel, entryId)
  IN IF failed = "entry.get" \/ memDestroyThrows(st, entryId) THEN st
     ELSE IF failed \in {"types.get", "types.set"} THEN afterRoute
     ELSE [afterRoute EXCEPT !.types[entry.type] =
                               SelectSeq(@, LAMBDA id : id # entry.id)]

\* update(entry) when exec rejects: the server ran the whole transaction
\* before the connection failed (applied) or none of it
redisUpdateFailing(st, entry, applied) ==
  IF applied THEN redisUpdate(st, entry) ELSE st

\* the backend commands of the networked destroy
RedisDestroySteps == {"get", "exec"}

\* destroy(entryId) when the get of entry() or the exec rejects
redisDestroyFailing(st, entryId, failed, applied) ==
  IF failed = "exec" /\ applied THEN redisDestroy(st, entryId) ELSE st

MemUpdateFails(entry) ==
  /\ backend = "memory" /\ Issue(1)
  /\ MemSet(memUpdateFailing(memState, entry))
  /\ last' = [Done("update", entry, entry.id, 1, TRUE) EXCEPT !.fault = "set"]
  /\ UNCHANGED <<sync, handles, hooks, inflight>>

MemDestroyFails(entryId, failed) ==
  /\ backend = "memory" /\ Issue(1)
  /\ failed = "entry.get" \/ ~memDestroyThrows(memState, entryId)
  /\ MemSet(memDestroyFailing(memState, entryId, failed))
  /\ last' = [Done("destroy", memEntry(memState, entryId), entryId, 0,
                   ~memDestroyRejects(memState, entryId, failed))
                EXCEPT !.fault = failed]
  /\ UNCHANGED <<sync, handles, hooks, inflight>>

RedisUpdateFails(entry, applied) ==
  /\ backend = "redis" /\ Issue(1)
  /\ RedisSet(redisUpdateFailing(redisState, entry, applied))
  /\ last' = [Done("update", entry, entry.id, 1, FALSE) EXCEPT !.fault = "exec"]
  /\ UNCHANGED <<sync, handles, hooks, inflight>>

RedisDestroyFails(entryId, failed, applied) ==
  /\ backend = "redis" /\ Issue(1)
  /\ failed = "get" \/ ~redisDestroySkips(redisState, entryId)
  /\ RedisSet(redisDestroyFailing(redisState, entryId, failed, applied))
  /\ last' = [Done("destroy", redisEntry(redisState, entryId), entryId, 0, FALSE)
                EXCEPT !.fault = failed]
  /\ UNCHANGED <<sync, handles, hooks, inflight>>

NextFault ==
  \/ Next
  \/ \E entry \in Entries : MemUpdateFails(entry)
  \/ \E entryId \in Ids, failed \in MemDestroySteps :
       MemDestroyFails(entryId, failed)
  \/ \E entry \in Entries, applied \in BOOLEAN : RedisUpdateFails(entry, applied)
  \/ \E entryId \in Ids, failed \in RedisDestroySteps, applied \in BOOLEAN :
       RedisDestroyFails(entryId, failed, applied)

\* the service with backend commands that can fail
SpecFault == Init /\ [][NextFault]_vars

\* ----------------------------------------------------------------- C11
\* C11: a failed single update or destroy is all-or-nothing - when a backend
\* command of the call fails, the entry store, the type index and the route
\* table are afterwards either all as the completed operation leaves them
\* or all as they were before the call; no call leaves the entry stored but
\* not indexed, or indexed but not stored.
C11_AllOrNothing ==
  [][(last'.fault # "none" /\ last'.op \in {"update", "destroy"})
       => \/ State' = State
          \/ State' = (IF last'.op = "update" THEN Update(State, last'.e)
                       ELSE Destroy(State, last'.id))]_vars

\* ----------------------------------------------------------------- C12
\* C12: destroy(id) for an id with no stored entry (never stored, or already
\* destroyed) completes without error and leaves the entry store, the route
\* table and the type index as they were, on either backend.
C12_DestroyAbsentNoOp ==
  [][(last'.op = "destroy" /\ ~IsEntry(last'.e))
       => (last'.ok /\ State' = State)]_vars

\* ================================================================ reads
\* entry(entryId) as a call of its own: the cache is left as it is and the
\* value the promise resolves with is recorded in last.e.  Neither class
\* throws on a miss: cache.get resolves undefined, JSON.parse(null) is null.
Entry(entryId) ==
  /\ last' = Done("entry", EntryOf(State, entryId), entryId, 0, TRUE)
  /\ UNCHANGED <<backend, env, store, mTypes, mRoutes,
                 rTypes, rRoutes, work, sync, handles, hooks, inflight>>

NextRead ==
  \/ Next
  \/ \E entryId \in Ids : Entry(entryId)

\* the service with its point lookup
SpecRead == Init /\ [][NextRead]_vars

\* `!entry`: the values the callers of entry() take for "not cached"
\* (ContentfulCache.entry tests `!entry`, the test expects `false`)
False == NonEntry("false")
Falsy(doc) == doc \in {False, Undefined, Nil}

\* ----------------------------------------------------------------- C13
\* C13: entry(id) for an id that has no stored entry (never stored, or
\* stored and then destroyed) resolves, without throwing or rejecting, to
\* the absent value - the value a caller's test for "not cached" recognises
\* - on either backend.
C13_MissResolvesAbsent ==
  (last.op = "entry" /\ store[last.id] = Nil)
    => (last.ok /\ Falsy(last.e))

\* ================================================== malformed documents
\* The networked update(entry) throws at entry.sys.contentType.sys.id before
\* anything is queued, so a document without a content type never reaches
\* that backend; the in-memory update(entry) stores whatever has a sys.id.
RedisUpdateThrows(entry) ==
  /\ backend = "redis" /\ Issue(1)
  /\ RedisSet(redisState)
  /\ last' = Done("update", entry, entry.id, 1, FALSE)
  /\ UNCHANGED <<sync, handles, hooks, inflight>>

NextMalformed ==
  \/ Next
  \/ \E entry \in Malformed : MemUpdate(entry)
  \/ \E entry \in Malformed : RedisUpdateThrows(entry)

\* the service handed documents without a content type as well
SpecMalformed == Init /\ [][NextMalformed]_vars

\* ----------------------------------------------------------------- C14
\* C14: destroy(id) of a stored entry whose document lacks expected fields
\* (here: sys without sys.contentType) is a no-op - it neither throws nor
\* rejects and leaves the entry store, the route table and the type index
\* unchanged.
C14_DestroyMalformedNoOp ==
  [][(last'.op = "destroy" /\ IsEntry(last'.e) /\ last'.e.type = NoType)
       => (last'.ok /\ State' = State)]_vars

\* ================================================ ContentfulCache.entry
\* entry(entryId): the cached document, or on a miss (`!entry`) syncOne:
\* one getEntries for the ID, whose first item - remote, Nil when the
\* remote has none - is stored with cache.update.  wrap() throws on a value
\* without fields.  last.e is what the cache returned, last.n the number
\* of remote fetches, last.remote what a fetch returned.
ApiEntry(entryId, remote) ==
  LET cached == EntryOf(State, entryId)
      miss   == Falsy(cached)
      st     == IF miss /\ IsEntry(remote) THEN Update(State, remote) ELSE State
      entry  == IF miss THEN (IF IsEntry(remote) THEN remote ELSE Undefined)
                ELSE cached
  IN /\ Issue(1)
     /\ IF backend = "memory" THEN MemSet(st) ELSE RedisSet(st)
     /\ last' = [Done("apiEntry", cached, entryId, IF miss THEN 1 ELSE 0,
                      IsEntry(entry))
                   EXCEPT !.remote = IF miss THEN remote ELSE Nil]
     /\ UNCHANGED <<sync, handles, hooks, inflight>>

\* what getEntries({'sys.id': entryId}) can return as items[0]
RemoteItems(entryId) == {Nil} \cup {e \in Entries : e.id = entryId}

NextApi ==
  \/ Next
  \/ \E entryId \in Ids : \E remote \in RemoteItems(entryId) :
       ApiEntry(entryId, remote)

\* the cache service under ContentfulCache.entry
SpecApi == Init /\ [][NextApi]_vars

\* ----------------------------------------------------------------- C15
\* C15: ContentfulCache.entry(id) - when the cache service holds no entry
\* for id, exactly one remote fetch is made and an entry it returns is
\* stored through cache.update; when the cache holds the entry, no remote
\* fetch is made; on the networked backend as on the in-memory one.
C15_FetchOnMiss ==
  (last.op = "apiEntry")
    => IF IsEntry(last.e) THEN last.n = 0
       ELSE /\ last.n = 1
            /\ IsEntry(last.remote) => EntryOf(State, last.id) = last.remote

\* ======================================================= the sync driver
\* ContentfulCache.sync() -> syncPaged(limit, skip).  sync holds the driver:
\*   status     idle | fetching (a getEntries is outstanding) | done (the
\*              promise resolved) | failed (it rejected)
\*   limit      the limit argument (0: not given)
\*   listing    the remote's entries in '-sys.updatedAt' order (fixed total)
\*   requested  the skip of every getEntries made, in order
\*   fed        the pages handed to cache.updateEntries, in order
\*   pending    the updateEntries calls started and not yet completed
\* updateEntries is called without await and its promise is dropped, so the
\* cache writes of a page complete on their own, after the driver moved on.

\* limit: limit || 250
DefaultLimit == 250
EffLimit(limit) == IF limit = 0 THEN DefaultLimit ELSE limit

\* the entries the remote can list: two that claim the same slug, and a
\* later version of each without a slug and under the other type
RemoteEntries ==
  {[kind |-> "entry", id |-> "A1", type |-> "page",  slug |-> "home"],
   [kind |-> "entry", id |-> "B2", type |-> "press", slug |-> "home"],
   [kind |-> "entry", id |-> "A1", type |-> "press", slug |-> NoSlug],
   [kind |-> "entry", id |-> "B2", type |-> "page",  slug |-> NoSlug]}
Listings == UNION {[1..n -> RemoteEntries] : n \in 0..MaxTotal}

\* response.items for a request (skip, limit)
PageItems(listing, skip, limit) ==
  SubSeq(listing, skip + 1,
         IF skip + limit < Len(listing) THEN skip + limit ELSE Len(listing))

\* sync() / syncPaged(limit): the first getEntries, skip || 0
SyncPaged(listing, limit) ==
  /\ sync.status = "idle"
  /\ sync' = [status |-> "fetching", limit |-> limit, listing |-> listing,
              requested |-> <<0>>, fed |-> <<>>, pending |-> <<>>]
  /\ UNCHANGED <<backend, env, store, mTypes, mRoutes,
                 rTypes, rRoutes, last, work, inflight, hooks, handles>>

\* (variant of SyncResponse: the next page is requested on `>=`)
SyncResponse_OneMore ==
  /\ sync.status = "fetching"
  /\ LET skip  == sync.requested[Len(sync.requested)]
         limit == EffLimit(sync.limit)
         items == PageItems(sync.listing, skip, limit)
         total == Len(sync.listing)
     IN sync' = [sync EXCEPT
                   !.fed = Append(@, [skip |-> skip, items |-> items]),
                   !.pending = Append(@, items),
                   !.requested = IF total >= skip + limit
                                 THEN Append(@, skip + limit) ELSE @,
                   !.status = IF total >= skip + limit
                              THEN "fetching" ELSE "done"]
  /\ UNCHANGED <<backend, env, store, mTypes, mRoutes,
                 rTypes, rRoutes, last, work, inflight, hooks, handles>>

\* the then-callback of syncPaged: updateEntries(response.items) is started,
\* and either the next page is requested or the response is returned
SyncResponse ==
  /\ sync.status = "fetching"
  /\ LET skip  == sync.requested[Len(sync.requested)]
         limit == EffLimit(sync.limit)
         items == PageItems(sync.listing, skip, limit)
         total == Len(sync.listing)
     IN sync' = [sync EXCEPT
                   !.fed = Append(@, [skip |-> skip, items |-> items]),
                   !.pending = Append(@, items),
                   !.requested = IF total > skip + limit
                                 THEN Append(@, skip + limit) ELSE @,
                   !.status = IF total > skip + limit
                              THEN "fetching" ELSE "done"]
  /\ UNCHANGED <<backend, env, store, mTypes, mRoutes,
                 rTypes, rRoutes, last, work, inflight, hooks, handles>>

\* (variant of SyncFetchFails: the rejection is swallowed and the next page
\* is requested)
SyncFetchFails_Continues ==
  /\ sync.status = "fetching"
  /\ Len(sync.requested) <= MaxTotal
  /\ sync' = [sync EXCEPT
                !.requested = Append(@, @[Len(@)] + EffLimit(sync.limit))]
  /\ UNCHANGED <<backend, env, store, mTypes, mRoutes,
                 rTypes, rRoutes, last, work, inflight, hooks, handles>>

\* the outstanding getEntries rejects: there is no catch on the chain, so
\* the promise of syncPaged (and of sync) rejects
SyncFetchFails ==
  /\ sync.status = "fetching"
  /\ sync' = [sync EXCEPT !.status = "failed"]
  /\ UNCHANGED <<backend, env, store, mTypes, mRoutes,
                 rTypes, rRoutes, last, work, inflight, hooks, handles>>

\* the oldest updateEntries call in flight completes its cache writes
SyncApply ==
  /\ sync.pending # <<>>
  /\ LET st == UpdateEntries(State, Head(sync.pending))
     IN IF backend = "memory" THEN MemSet(st) ELSE RedisSet(st)
  /\ sync' = [sync EXCEPT !.pending = Tail(@)]
  /\ UNCHANGED <<last, work, inflight, hooks, handles>>

\* the outstanding request settles one way or the other
SyncSettles == SyncResponse \/ SyncFetchFails

NextSync ==
  \/ \E listing \in Listings, limit \in 0..MaxLimit : SyncPaged(listing, limit)
  \/ SyncResponse
  \/ SyncFetchFails
  \/ SyncApply

\* a sync over a fresh cache; the HTTP client settles every request and the
\* backend completes every write it was handed
SpecSync ==
  Init /\ [][NextSync]_vars /\ WF_vars(SyncSettles) /\ WF_vars(SyncApply)

\* ----------------------------------------------------------------- C16
\* the number of pages of a listing of `total` entries at page size `limit`
PageCount(total, limit) ==
  IF total = 0 THEN 1 ELSE (total + limit - 1) \div limit

\* the requests made so far are skip = 0, limit, 2*limit, ... and go no
\* further than the first page with total <= skip + limit; every page that
\* was answered was fed to updateEntries once, in order; the promise has
\* resolved exactly when that last page was answered
C16_Paging ==
  (sync.status # "idle")
    => LET limit == EffLimit(sync.limit)
           total == Len(sync.listing)
           asked == Len(sync.requested)
       IN /\ asked <= PageCount(total, limit)
          /\ \A i \in 1..asked : sync.requested[i] = (i - 1) * limit
          /\ \A i \in 1..(asked - 1) : total > sync.requested[i] + limit
          /\ Len(sync.fed) = (IF sync.status = "done" THEN asked
                              ELSE IF sync.status = "fetching" THEN asked - 1
                              ELSE Len(sync.fed))
          /\ Len(sync.fed) <= asked
          /\ \A i \in 1..Len(sync.fed) :
               sync.fed[i] = [skip  |-> sync.requested[i],
                              items |-> PageItems(sync.listing,
                                                  sync.requested[i], limit)]
          /\ (sync.status = "done")
               => (asked = PageCount(total, limit)
                   /\ total <= sync.requested[asked] + limit)

\* once resolved, no further page is requested or fed
C16_Stops ==
  (sync.status = "done")
    => (sync'.status = "done" /\ sync'.requested = sync.requested
        /\ sync'.fed = sync.fed)

\* C16: the sync driver, started at skip 0 with page size limit against a
\* remote with a fixed total, requests exactly the pages skip = 0, limit,
\* 2*limit, ..., feeds each page's items to updateEntries exactly once,
\* resolves right after the first page with total <= skip + limit, never
\* requests a page after that, and always terminates.
C16_SyncPages ==
  /\ []C16_Paging
  /\ [][C16_Stops]_vars
  /\ (sync.status = "fetching") ~> (sync.status \in {"done", "failed"})

\* C16's case: a sync of three pages has resolved.
C16_Witness ==
  /\ sync.status = "done" /\ sync.limit >= 1
  /\ sync.requested = <<0, sync.limit, 2 * sync.limit>>
  /\ Len(sync.fed) = 3

\* ----------------------------------------------------------------- C17
\* doc is stored and reflected in entriesOfType() and routes(): it is
\* listed under its type and, when it has a slug, every routes() result
\* has that slug as a key
Indexed(st, doc) ==
  /\ ListedCount(st, doc.type, doc.id) >= 1
  /\ (doc.slug \in Slugs)
       => \A routes \in RoutesOf(st) : \E r \in routes : r[1] = doc.slug

\* C17: when the promise of sync()/syncPaged() has resolved the sync has
\* finished - no cache write of the sync is still pending, and every entry
\* of every fetched page is in the entry store and reflected in routes() and
\* entriesOfType().
C17_ResolvedMeansFinished ==
  (sync.status = "done")
    => /\ sync.pending = <<>>
       /\ \A i \in 1..Len(sync.fed) : \A j \in 1..Len(sync.fed[i].items) :
            LET e == sync.fed[i].items[j]
            IN /\ IsEntry(EntryOf(State, e.id))
               /\ Indexed(State, EntryOf(State, e.id))

\* ----------------------------------------------------------------- C18
\* every stored entry is indexed; a page is requested only once the page
\* before it was answered, and a failed request is the last one; once the
\* writes in flight have completed, every entry of the pages answered
\* before the failure is stored
C18_Consistent ==
  /\ \A id \in Ids :
       IsEntry(EntryOf(State, id)) => Indexed(State, EntryOf(State, id))
  /\ Len(sync.requested) <= Len(sync.fed) + 1
  /\ (sync.status = "failed")
       => /\ Len(sync.requested) = Len(sync.fed) + 1
          /\ (sync.pending = <<>>)
               => \A i \in 1..Len(sync.fed) :
                    \A j \in 1..Len(sync.fed[i].items) :
                      IsEntry(EntryOf(State, sync.fed[i].items[j].id))

\* after the failure nothing more is requested or fed, and nothing that
\* was stored is taken back
C18_Aborts ==
  /\ (sync.status = "failed")
       => (sync'.status = "failed" /\ sync'.requested = sync.requested
           /\ sync'.fed = sync.fed)
  /\ \A id \in Ids :
       IsEntry(EntryOf(State, id)) => IsEntry(EntryOf(State, id))'

MemFirstPage(entries) ==
  /\ backend = "memory" /\ last.op = "new" /\ Issue(Len(entries))
  /\ MemSet(memUpdateEntries(memState, entries))
  /\ last' = [Done("updateEntries", Nil, "", Len(entries), TRUE)
                EXCEPT !.batch = entries]
  /\ UNCHANGED <<sync, handles, hooks, inflight>>

RedisFirstPage(entries) ==
  /\ backend = "redis" /\ last.op = "new" /\ Issue(Len(entries))
  /\ RedisSet(redisUpdateEntries(redisState, entries))
  /\ last' = [Done("updateEntries", Nil, "", Len(entries), TRUE)
                EXCEPT !.batch = entries]
  /\ UNCHANGED <<sync, handles, hooks, inflight>>

NextBatch ==
  \/ \E entries \in FittingPages : MemFirstPage(entries)
  \/ \E entries \in FittingPages : RedisFirstPage(entries)

\* one page handed to a fresh cache service
SpecBatch == Init /\ [][NextBatch]_vars

\* ----------------------------------------------------------------- C19
\* C19: after updateEntries(batch) on an empty cache has resolved, routes()
\* has exactly one key per distinct slug declared in the batch, each value
\* being the pair (typeId, entryId) of a batch entry declaring that slug;
\* entries that lack a slug get no route but are stored and listed under
\* their type.
C19_BatchRoutes ==
  (last.op = "updateEntries" /\ work = last.n)
    => LET batch    == last.batch
           declared == {batch[j].slug : j \in 1..Len(batch)} \cap Slugs
       IN /\ \A routes \in RoutesOf(State) :
               /\ {r[1] : r \in routes} = declared
               /\ \A r \in routes :
                    \E j \in 1..Len(batch) :
                      <<batch[j].slug, batch[j].type, batch[j].id>> = r
          /\ \A j \in 1..Len(batch) :
               (batch[j].slug \notin Slugs)
                 => /\ IsEntry(EntryOf(State, batch[j].id))
                    /\ ListedCount(State, batch[j].type, batch[j].id) >= 1

\* ----------------------------------------------------------------- C20
\* the batch entries of type t, and whether the batch's IDs are distinct
OfType(batch, t) == {j \in 1..Len(batch) : batch[j].type = t}
DistinctIds(batch) ==
  \A j, k \in 1..Len(batch) : batch[j].id = batch[k].id => j = k

\* entriesOfType([t1, t2]) is a member list of t1 followed by one of t2
Concatenates ==
  \A t1, t2 \in Types :
    EntriesOfTypeOf(State, <<t1, t2>>)
      = {a \o b : a \in EntriesOfTypeOf(State, <<t1>>),
                  b \in EntriesOfTypeOf(State, <<t2>>)}

\* C20 (as stated): after updateEntries(batch) on an empty cache,
\* entriesOfType(t) returns exactly one entry document per batch entry of
\* type t, and entriesOfType([t1, t2]) is the concatenation of the two
\* member lists (nothing is deduplicated).
C20_OnePerBatchEntry ==
  (last.op = "updateEntries" /\ work = last.n)
    => /\ \A t \in Types : \A docs \in EntriesOfTypeOf(State, <<t>>) :
            Len(docs) = Cardinality(OfType(last.batch, t))
       /\ Concatenates

\* C20 (amended): the same for a batch whose entries have pairwise distinct
\* IDs - entriesOfType(t) returns the batch entries of type t, each once;
\* for any batch, entriesOfType([t1, t2]) is the concatenation of the two
\* member lists, an ID listed under both types appearing twice.
C20_OnePerDistinctEntry ==
  (last.op = "updateEntries" /\ work = last.n)
    => /\ DistinctIds(last.batch)
            => \A t \in Types : \A docs \in EntriesOfTypeOf(State, <<t>>) :
                 /\ Len(docs) = Cardinality(OfType(last.batch, t))
                 /\ Range(docs) = {last.batch[j] : j \in OfType(last.batch, t)}
       /\ Concatenates

\* C20's case: a page of two entries with different IDs, one of each type.
C20_Witness ==
  /\ last.op = "updateEntries" /\ work = last.n /\ Len(last.batch) = 2
  /\ DistinctIds(last.batch)
  /\ \A t \in Types : \E docs \in EntriesOfTypeOf(State, <<t>>) : Len(docs) = 1

\* ----------------------------------------------------------------- C21
\* how many IDs are listed under type t, and the keys of routes()
MemberCount(st, t) ==
  Cardinality({id \in Ids : ListedCount(st, t, id) > 0})
    + Cardinality({id \in Ids : ListedCount(st, t, id) > 1})
RouteSlugs(st) == {r[1] : r \in RouteTable(st)}

\* C21: destroy(id) of a stored entry changes only that entry's data - the
\* member count of its type drops by exactly one, the route table loses
\* exactly one key if the entry had a slug and none otherwise, and every
\* other entry's document, type membership and route are unchanged.
C21_DestroyFrame ==
  [][(last'.op = "destroy" /\ last'.ok /\ IsEntry(last'.e))
       => LET e == last'.e
          IN /\ MemberCount(State', e.type) = MemberCount(State, e.type) - 1
             /\ Cardinality(RouteSlugs(State'))
                  = Cardinality(RouteSlugs(State))
                      - (IF e.slug \in Slugs THEN 1 ELSE 0)
             /\ \A other \in Ids \ {e.id} :
                  /\ EntryOf(State', other) = EntryOf(State, other)
                  /\ \A t \in Types :
                       ListedCount(State', t, other) = ListedCount(State, t, other)
                  /\ {r \in RouteTable(State') : r[3] = other}
                       = {r \in RouteTable(State) : r[3] = other}]_vars

\* ----------------------------------------------------------------- C22
UpdateReturns(entry) ==
  IF backend = "memory" THEN memUpdateReturns(entry)
  ELSE redisUpdateReturns(entry)

\* C22: update(e) returns the entry it was given, and afterwards
\* entry(e.id) returns a document equal to e; a later update(e') with the
\* same ID replaces the document wholesale - entry(e.id) equals e' and
\* carries no field of e that e' lacks.
C22_ReplaceWholesale ==
  (last.op = "update")
    => /\ last.ok /\ UpdateReturns(last.e) = last.e
       /\ EntryOf(State, last.e.id) = last.e
       /\ (IsEntry(last.before) /\ last.before.id = last.e.id
           /\ last.e.slug = NoSlug)
            => EntryOf(State, last.e.id).slug = NoSlug

\* C22's case: an entry with a slug was updated by a version of it that has
\* no slug field and another type.
C22_Witness ==
  /\ last.op = "update" /\ IsEntry(last.before)
  /\ last.before.id = last.e.id /\ last.before.type # last.e.type
  /\ last.before.slug \in Slugs /\ last.e.slug = NoSlug
  /\ EntryOf(State, last.e.id) = last.e

\* ============================================ updateRoutes called directly
\* updateRoutes(routes, merge) is a public method of the in-memory class
\* (the networked class has none).  The route objects handed in: up to two
\* properties, each slug -> [typeId, entryId].
RouteRecords == [slug : Slugs, type : Types, id : Ids]
RouteObjects ==
  {<<>>} \cup {<<r>> : r \in RouteRecords}
         \cup {p \in RouteRecords \X RouteRecords : p[1].slug # p[2].slug}

MemUpdateRoutes(routes, merge) ==
  /\ backend = "memory" /\ Issue(1)
  /\ MemSet(memUpdateRoutes(memState, routes, merge))
  /\ last' = [Done(IF merge THEN "updateRoutes(merge)"
                   ELSE "updateRoutes(replace)", Nil, "", 0, TRUE)
                EXCEPT !.batch = routes]
  /\ UNCHANGED <<sync, handles, hooks, inflight>>

NextRoutes ==
  \E routes \in RouteObjects, merge \in BOOLEAN : MemUpdateRoutes(routes, merge)

\* the route table under calls of updateRoutes
SpecRoutes == Init /\ [][NextRoutes]_vars

\* ----------------------------------------------------------------- C23
\* C23: updateRoutes(newRoutes) with merge = true yields a table that has
\* newRoutes' value for every key of newRoutes and the previous value for
\* every other previous key (a slug absent from newRoutes survives
\* untouched); updateRoutes(newRoutes, false) yields exactly newRoutes.
C23_UpdateRoutesMerge ==
  [][/\ (last'.op = "updateRoutes(merge)")
          => LET new == RoutePairs(last'.batch)
                 old == RoutePairs(memRoutes(State))
             IN RoutePairs(memRoutes(State'))
                  = new \cup {r \in old : r[1] \notin RouteKeys(last'.batch)}
     /\ (last'.op = "updateRoutes(replace)")
          => memRoutes(State') = last'.batch]_vars

\* C23's case: a merge added one slug's route beside another slug's route
\* that was in the table before.
C23_Witness ==
  /\ last.op = "updateRoutes(merge)" /\ Len(last.batch) = 1
  /\ RoutePairs(last.batch) \subseteq RoutePairs(memRoutes(State))
  /\ \E r \in RoutePairs(memRoutes(State)) : r[1] \notin RouteKeys(last.batch)

\* ======================================================= the sails webhook
\* The action contentful/webhook: the key check, then the dispatch on the
\* X-Contentful-Topic header.  The hook is configured with an environment
\* (sails.config.contentful.env); the request carries a key (valid or not),
\* a topic and a body, the entry.
Envs == {"development", "production"}
Topics == {"auto_save", "publish", "delete", "unpublish", "archive"}

\* the switch: which cache call, if any, the topic leads to
WebhookCall(topic) ==
  CASE topic = "auto_save" -> IF env # "development" THEN "none" ELSE "update"
    [] topic = "publish"   -> "update"
    [] topic = "delete"    -> "destroy"
    [] topic = "unpublish" -> IF env # "development" THEN "none" ELSE "destroy"
    [] OTHER               -> "none"

\* (variant of Webhook: auto_save is not gated by the environment)
Webhook_AutoSaveAlways(keyOk, topic, body) ==
  LET call == IF ~keyOk THEN "none"
              ELSE IF topic = "auto_save" THEN "update" ELSE WebhookCall(topic)
      st   == CASE call = "update"  -> Update(State, body)
                [] call = "destroy" -> Destroy(State, body.id)
                [] OTHER            -> State
  IN /\ env \in Envs /\ Issue(1)
     /\ IF backend = "memory" THEN MemSet(st) ELSE RedisSet(st)
     /\ last' = [Done("webhook", body, body.id, IF keyOk THEN 200 ELSE 403,
                      keyOk)
                   EXCEPT !.topic = topic, !.call = call]
     /\ UNCHANGED <<sync, handles, hooks, inflight>>

\* one request: 403 without the valid key, else the dispatched call and 200
Webhook(keyOk, topic, body) ==
  LET call == IF ~keyOk THEN "none" ELSE WebhookCall(topic)
      st   == CASE call = "update"  -> Update(State, body)
                [] call = "destroy" -> Destroy(State, body.id)
                [] OTHER            -> State
  IN /\ env \in Envs /\ Issue(1)
     /\ IF backend = "memory" THEN MemSet(st) ELSE RedisSet(st)
     /\ last' = [Done("webhook", body, body.id, IF keyOk THEN 200 ELSE 403,
                      keyOk)
                   EXCEPT !.topic = topic, !.call = call]
     /\ UNCHANGED <<sync, handles, hooks, inflight>>

\* the hook is loaded with one of the environments
InitHook ==
  /\ backend \in {"memory", "redis"}
  /\ store = [i \in Ids |-> Nil]
  /\ mTypes = [t \in Types |-> <<>>]
  /\ mRoutes = <<>>
  /\ rTypes = [t \in Types |-> {}]
  /\ rRoutes = {}
  /\ last = [op |-> "new", e |-> Nil, id |-> "", n |-> 0, ok |-> TRUE,
             before |-> Nil, fault |-> "none", remote |-> Nil, batch |-> <<>>,
             topic |-> "", call |-> "none", types |-> <<>>,
             filter |-> "none"]
  /\ work = 0
  /\ sync = NoSync
  /\ inflight = <<>>
  /\ hooks = <<>>
  /\ handles = NewHandle(0)
  /\ env \in Envs

NextHook ==
  \E keyOk \in BOOLEAN, topic \in Topics, body \in Entries :
    Webhook(keyOk, topic, body)

\* the cache service behind the webhook
SpecHook == InitHook /\ [][NextHook]_vars

\* ----------------------------------------------------------------- C24
\* the request's dispatched call was made and had its effect
Called(call) ==
  /\ last'.call = call
  /\ State' = (CASE call = "update"  -> Update(State, last'.e)
                 [] call = "destroy" -> Destroy(State, last'.id)
                 [] OTHER            -> State)

\* C24 (as stated): webhook dispatch - 'publish' always calls
\* cache.update(body) and 'delete' always calls cache.destroy(body.sys.id),
\* in every environment; 'auto_save' calls cache.update(body) only on
\* development and otherwise changes nothing; any other topic changes
\* nothing in the cache.
C24_WebhookDispatch ==
  [][(last'.op = "webhook" /\ last'.ok)
       => CASE last'.topic = "publish"   -> Called("update")
            [] last'.topic = "delete"    -> Called("destroy")
            [] last'.topic = "auto_save" ->
                 IF env = "development" THEN Called("update") ELSE Called("none")
            [] OTHER                     -> Called("none")]_vars

\* C24 (amended): for a request that carries the valid webhook key the same
\* holds of 'publish', 'delete' and 'auto_save', and a topic other than
\* these three and 'unpublish' changes nothing; a request without the valid
\* key changes nothing, whatever its topic.
C24_WebhookDispatchKeyed ==
  [][(last'.op = "webhook")
       => IF ~last'.ok THEN Called("none") /\ last'.n = 403
          ELSE CASE last'.topic = "publish"   -> Called("update")
                 [] last'.topic = "delete"    -> Called("destroy")
                 [] last'.topic = "auto_save" ->
                      IF env = "development" THEN Called("update")
                      ELSE Called("none")
                 [] last'.topic = "unpublish" -> TRUE
                 [] OTHER                     -> Called("none")]_vars

\* C24's case: an auto_save arrived off development, after a publish had
\* stored the entry, and left it as it was.
C24_Witness ==
  /\ last.op = "webhook" /\ last.ok /\ last.topic = "auto_save"
  /\ env = "production" /\ last.call = "none"
  /\ IsEntry(EntryOf(State, last.id)) /\ EntryOf(State, last.id) # last.e

\* ----------------------------------------------------------------- C25
\* C25: on the development environment the webhook 'unpublish' action has
\* no effect - the entry store, the route table and the type index are the
\* same after the request as before it.
C25_UnpublishOnDevelopment ==
  [][(last'.op = "webhook" /\ last'.ok /\ last'.topic = "unpublish"
      /\ env = "development")
       => Called("none")]_vars

\* ----------------------------------------------------------------- C26
\* config.wrapper.urlMapping: content type -> path (here for one type)
UrlMapping == [t \in {"press"} |-> "news"]

\* ContentfulWrapper.getSlug(): [urlMapping[type] || type, slug].join('/')
getSlug(type, slug) ==
  (IF type \in DOMAIN UrlMapping THEN UrlMapping[type] ELSE type) \o "/" \o slug

\* the README's final resolved path of an entry: '/blog/my-awesome-blog-post'
ResolvedPath(type, slug) == "/" \o getSlug(type, slug)

\* C26: the key of each cached route is the final resolved path of the
\* entry - after updateEntries(batch) on a fresh cache, for a batch entry
\* of content type t with slug s, routes() has the key '/p/s', p being
\* urlMapping[t] or else t, and its value is (t, entryId) of a batch entry
\* with that type and slug.
C26_RouteKeyIsPath ==
  (last.op = "updateEntries" /\ work = last.n)
    => \A j \in 1..Len(last.batch) :
         (last.batch[j].slug \in Slugs)
           => \A routes \in RoutesOf(State) :
                \E r \in routes :
                  /\ r[1] = ResolvedPath(last.batch[j].type, last.batch[j].slug)
                  /\ r[2] = last.batch[j].type
                  /\ \E k \in 1..Len(last.batch) :
                       /\ last.batch[k].id = r[3]
                       /\ last.batch[k].type = last.batch[j].type
                       /\ last.batch[k].slug = last.batch[j].slug

\* ====================================== destroy racing update (C27)
\* The networked destroy(entryId) takes two round trips: `await
\* this.entry(entryId)`, then the transaction built from the document that
\* read returned.  update(entry) is one transaction.  Redis runs each
\* transaction atomically, and serves other clients between the two.

\* the three structures agree about entryId: a stored entry is listed under
\* its type and, with a slug, its slug leads to it; an absent one is in no
\* type set and no route leads to it
Agree(st, entryId) ==
  LET doc == EntryOf(st, entryId)
  IN IF doc # EmptyObject
     THEN /\ ListedCount(st, doc.type, entryId) > 0
          /\ (doc.slug \in Slugs
                => <<doc.slug, doc.type, entryId>> \in RouteTable(st))
     ELSE /\ \A t \in Types : ListedCount(st, t, entryId) = 0
          /\ \A r \in RouteTable(st) : r[3] # entryId

\* the transaction of destroy, built from the document its read returned
redisDestroyExec(st, entryId, entry) ==
  [store  |-> [st.store EXCEPT ![entryId] = Nil],
   types  |-> [st.types EXCEPT ![entry.type] = @ \ {entry.id}],
   routes |-> IF redisRouteOf(entry)
              THEN st.routes \ {RouteJoin(entry.slug, entry.type, entry.id)}
              ELSE st.routes]

\* destroy(entryId) up to its first await: the document is read; with none
\* stored the call returns at once, otherwise it is in flight with what it
\* read (at: the value of `work` when it read; agreed: whether the
\* structures agreed about the entry then)
RaceDestroyGet(entryId) ==
  /\ backend = "redis" /\ inflight = <<>> /\ Issue(1)
  /\ LET entry == redisEntry(redisState, entryId)
     IN IF redisDestroySkips(redisState, entryId)
        THEN /\ last' = Done("destroy", entry, entryId, 0, TRUE)
             /\ inflight' = <<>>
        ELSE /\ last' = last
             /\ inflight' = <<[op |-> "destroy", id |-> entryId,
                               read |-> entry, at |-> work',
                               agreed |-> Agree(redisState, entryId)]>>
  /\ UNCHANGED <<backend, env, store, mTypes, mRoutes, rTypes, rRoutes,
                 sync, handles, hooks>>

\* the transaction of the destroy in flight executes and the call returns
RaceDestroyExec ==
  /\ backend = "redis" /\ inflight # <<>>
  /\ RedisSet(redisDestroyExec(redisState, inflight[1].id, inflight[1].read))
  /\ last' = Done("destroy", inflight[1].read, inflight[1].id, 0, TRUE)
  /\ inflight' = <<>>
  /\ UNCHANGED <<work, sync, handles, hooks>>

InitRace == Init /\ backend = "redis"

NextRace ==
  \/ \E entry \in Entries : RedisUpdate(entry)
  \/ \E entryId \in Ids : RaceDestroyGet(entryId)
  \/ RaceDestroyExec

SpecRace == InitRace /\ [][NextRace]_vars

\* C27: a destroy(id) racing one concurrent update(e) with e.id = id
\* converges - when the update ran between the read and the transaction of
\* the destroy, and the structures agreed about id when the destroy read,
\* then once the destroy has completed the structures agree about id.
C27_RaceConverges ==
  [][(/\ inflight # <<>> /\ inflight' = <<>>
      /\ last.op = "update" /\ last.e.id = inflight[1].id
      /\ work = inflight[1].at + 1
      /\ inflight[1].agreed)
       => Agree(State', inflight[1].id)]_vars

\* ============================ in-memory calls in flight together (C28)
\* The in-memory class reads and writes '$routes' and '$types' whole, with
\* an await between the read and the write:
\*   updateEntries  updateRoutes(routes), not awaited: `await this.routes()`
\*                  then cache.set of {...existing, ...routes};
\*                  `await this.cache.get(TYPE_KEY)`, then the entries.map
\*                  (with each cache.set(id, entry)) and cache.set of types
\*   destroy        `await this.entry(entryId)`, cache.del; deleteRoute, not
\*                  awaited: `await this.routes()`, then cache.set if a key
\*                  was found; `await this.cache.get(TYPE_KEY)`, then
\*                  cache.set of the filtered types
\* A call in flight is a record: op, batch or id, the document destroy read
\* (doc), pc ("entry" until destroy's first read has resolved, then "run"),
\* the position of its '$routes' part (r) and of its '$types' part (t), each
\* "get", "set" or "done", the values those reads returned (routes, types),
\* and the state the instance was in when the first of the calls in flight
\* together began (from).  The store hands out values, as a store that
\* serialises does (the tests build the class over such a store).  Calls
\* stay in `inflight` until all of them have completed.

\* the entries the overlapping calls work on
OverlapEntries ==
  {[kind |-> "entry", id |-> "A1", type |-> "page", slug |-> "home"],
   [kind |-> "entry", id |-> "B2", type |-> "page",
    slug |-> "terms-conditions"]}

OverlapPages ==
  UNION {[1..n -> OverlapEntries] :
           n \in 1..(IF MaxWork - work < MaxBatch THEN MaxWork - work
                     ELSE MaxBatch)}

\* at most two calls are in flight together
MaxCalls == 2

CallDone(c) == c.pc = "run" /\ c.r = "done" /\ c.t = "done"

\* the calls still held after a step: none once all have completed
Settle(calls) ==
  IF \A k \in 1..Len(calls) : CallDone(calls[k]) THEN <<>> ELSE calls

GroupFrom == IF inflight = <<>> THEN memState ELSE inflight[1].from

\* updateEntries(entries) up to its first await: both reads are issued
OvUpdateEntries(entries) ==
  /\ backend = "memory" /\ Len(inflight) < MaxCalls /\ Issue(Len(entries))
  /\ inflight' = Append(inflight,
       [op |-> "updateEntries", batch |-> entries, id |-> "", doc |-> Nil,
        pc |-> "run", r |-> "get", routes |-> <<>>,
        t |-> "get", types |-> mTypes, from |-> GroupFrom])
  /\ UNCHANGED <<backend, env, store, mTypes, mRoutes, rTypes, rRoutes,
                 last, sync, handles, hooks>>

\* destroy(entryId) up to its first await: the entry's read is issued
OvDestroy(entryId) ==
  /\ backend = "memory" /\ Len(inflight) < MaxCalls /\ Issue(1)
  /\ inflight' = Append(inflight,
       [op |-> "destroy", batch |-> <<>>, id |-> entryId, doc |-> Nil,
        pc |-> "entry", r |-> "get", routes |-> <<>>,
        t |-> "get", types |-> mTypes, from |-> GroupFrom])
  /\ UNCHANGED <<backend, env, store, mTypes, mRoutes, rTypes, rRoutes,
                 last, sync, handles, hooks>>

\* destroy: the entry's read resolves; entry.sys throws on undefined and
\* the call rejects, otherwise cache.del and the two further reads are issued
OvDestroyEntry(k) ==
  /\ backend = "memory" /\ k \in 1..Len(inflight)
  /\ inflight[k].pc = "entry"
  /\ LET c == inflight[k] IN
     IF memDestroyThrows(memState, c.id)
     THEN /\ inflight' = Settle([inflight EXCEPT
                ![k] = [c EXCEPT !.pc = "run", !.r = "done", !.t = "done"]])
          /\ last' = Done("destroy", Undefined, c.id, 0, FALSE)
          /\ UNCHANGED store
     ELSE /\ inflight' = [inflight EXCEPT
                ![k] = [c EXCEPT !.pc = "run",
                                 !.doc = memEntry(memState, c.id)]]
          /\ store' = [store EXCEPT ![c.id] = Nil]
          /\ last' = last
  /\ UNCHANGED <<backend, env, mTypes, mRoutes, rTypes, rRoutes, work,
                 sync, handles, hooks>>

\* `await this.routes()` of updateRoutes or deleteRoute resolves
OvRoutesGet(k) ==
  /\ backend = "memory" /\ k \in 1..Len(inflight)
  /\ inflight[k].pc = "run" /\ inflight[k].r = "get"
  /\ inflight' = [inflight EXCEPT ![k].r = "set",
                                  ![k].routes = memRoutes(memState)]
  /\ UNCHANGED <<backend, env, store, mTypes, mRoutes, rTypes, rRoutes,
                 last, work, sync, handles, hooks>>

\* the rest of updateRoutes (the spread is written) or of deleteRoute (the
\* object read is written without the key found, if one was found)
OvRoutesSet(k) ==
  /\ backend = "memory" /\ k \in 1..Len(inflight)
  /\ inflight[k].pc = "run" /\ inflight[k].r = "set"
  /\ LET c    == inflight[k]
         read == [memState EXCEPT !.routes = c.routes]
     IN mRoutes' =
          IF c.op = "updateEntries"
          THEN memUpdateRoutes(read, memBatchRoutes(<<>>, c.batch), TRUE).routes
          ELSE IF memDeleteRoute(read, c.id) = read THEN mRoutes
          ELSE memDeleteRoute(read, c.id).routes
  /\ inflight' = Settle([inflight EXCEPT ![k].r = "done"])
  /\ UNCHANGED <<backend, env, store, mTypes, rTypes, rRoutes,
                 last, work, sync, handles, hooks>>

\* `await this.cache.get(TYPE_KEY)` resolves
OvTypesGet(k) ==
  /\ backend = "memory" /\ k \in 1..Len(inflight)
  /\ inflight[k].pc = "run" /\ inflight[k].t = "get"
  /\ inflight' = [inflight EXCEPT ![k].t = "set", ![k].types = mTypes]
  /\ UNCHANGED <<backend, env, store, mTypes, mRoutes, rTypes, rRoutes,
                 last, work, sync, handles, hooks>>

\* the rest of updateEntries (the entries.map on the object read, each
\* entry stored, the object written) or of destroy (the member array
\* filtered and the object written, unless the type has no key); the call's
\* promise resolves
OvTypesSet(k) ==
  /\ backend = "memory" /\ k \in 1..Len(inflight)
  /\ inflight[k].pc = "run" /\ inflight[k].t = "set"
  /\ LET c    == inflight[k]
         read == [memState EXCEPT !.types = c.types]
     IN IF c.op = "updateEntries"
        THEN /\ store' = memIndexEntries(read, c.batch).store
             /\ mTypes' = memIndexEntries(read, c.batch).types
             /\ last' = [Done("updateEntries", Nil, "", Len(c.batch), TRUE)
                           EXCEPT !.batch = c.batch]
        ELSE /\ store' = store
             /\ mTypes' = IF c.types[c.doc.type] = <<>> THEN mTypes
                          ELSE [c.types EXCEPT ![c.doc.type] =
                                  SelectSeq(@, LAMBDA id : id # c.doc.id)]
             /\ last' = Done("destroy", c.doc, c.id, 0, TRUE)
  /\ inflight' = Settle([inflight EXCEPT ![k].t = "done"])
  /\ UNCHANGED <<backend, env, mRoutes, rTypes, rRoutes, work, sync,
                 handles, hooks>>

InitOverlap == Init /\ backend = "memory"

NextOverlap ==
  \/ \E entries \in OverlapPages : OvUpdateEntries(entries)
  \/ \E entryId \in Ids : OvDestroy(entryId)
  \/ \E k \in 1..MaxCalls :
       OvDestroyEntry(k) \/ OvRoutesGet(k) \/ OvRoutesSet(k)
         \/ OvTypesGet(k) \/ OvTypesSet(k)

SpecOverlap == InitOverlap /\ [][NextOverlap]_vars

\* a call run on its own, start to end
RunAlone(st, c) ==
  IF c.op = "updateEntries" THEN memUpdateEntries(st, c.batch)
  ELSE memDestroy(st, c.id)

\* the calls run one after the other, in the order given
RECURSIVE RunInTurn(_, _, _)
RunInTurn(st, calls, order) ==
  IF order = <<>> THEN st
  ELSE RunInTurn(RunAlone(st, calls[Head(order)]), calls, Tail(order))

\* the type index lists every stored entry and the route table holds every
\* stored entry's slug
AllIndexed(st) ==
  \A id \in Ids :
    LET doc == memEntry(st, id)
    IN doc # Undefined
         => /\ id \in Range(st.types[doc.type])
            /\ doc.slug \in Slugs => doc.slug \in RouteKeys(st.routes)

\* C28: in-memory mutations behave atomically - when updateEntries and
\* destroy calls were in flight together from a state in which every stored
\* entry was indexed, and running them one after the other leaves every
\* stored entry indexed in whichever order, then once all of them have
\* completed the type index lists every stored entry and the route table
\* holds every stored entry's slug.
C28_OverlapKeepsIndexes ==
  [][(/\ Len(inflight) >= 2 /\ inflight' = <<>>
      /\ AllIndexed(inflight[1].from)
      /\ \A order \in Orders(1..Len(inflight)) :
           AllIndexed(RunInTurn(inflight[1].from, inflight, order)))
       => AllIndexed(memState')]_vars

\* ======================================= onUpdate / onDestroy (C29, C30)
\* `hooks` lists the hook calls of the operation that completed last, in the
\* order they were made: which hook, the entry it was about (for onDestroy
\* the document destroy had read), the state its writes had reached when it
\* was called (saw), and whether the hook threw.  A write the code issues
\* before the call counts as having reached the store.

HookCall(hook, e, saw, threw) ==
  [hook |-> hook, e |-> e, saw |-> saw, threw |-> threw]

\* in-memory update(entry): cache.set, then onUpdate; a throw leaves update
\* through the caller's stack
CbMemUpdate(entry, throws) ==
  /\ backend = "memory" /\ Issue(1)
  /\ MemSet(memUpdate(memState, entry))
  /\ hooks' = <<HookCall("onUpdate", entry, memUpdate(memState, entry), throws)>>
  /\ last' = Done("update", entry, entry.id, 1, ~throws)
  /\ UNCHANGED <<sync, handles, inflight>>

\* the entries whose update() is reached: all of them, or those up to the
\* one whose onUpdate throws (throwAt; 0 when none does)
Reached(entries, throwAt) ==
  IF throwAt = 0 THEN entries ELSE SubSeq(entries, 1, throwAt)

\* in-memory updateEntries(entries).  updateRoutes is not awaited: its write
\* happens whatever becomes of the caller, before or after the entries.map
\* runs (routesFirst).  onUpdate of the j-th entry is called inside the map,
\* after cache.set of entries 1..j and before cache.set(TYPE_KEY, types); a
\* throw ends the map and rejects the call before that write.
CbMemUpdateEntries(entries, throwAt, routesFirst) ==
  /\ backend = "memory" /\ Issue(Len(entries))
  /\ throwAt \in 0..Len(entries)
  /\ LET routed  == memUpdateRoutes(memState,
                                    memBatchRoutes(<<>>, entries), TRUE)
         ran     == Reached(entries, throwAt)
         docs(j) == memIndexEntries(memState, SubSeq(entries, 1, j)).store
         saw(j)  == [store  |-> docs(j), types |-> mTypes,
                     routes |-> IF routesFirst THEN routed.routes ELSE mRoutes]
     IN /\ hooks' = [j \in 1..Len(ran) |->
                       HookCall("onUpdate", entries[j], saw(j), j = throwAt)]
        /\ MemSet(IF throwAt = 0 THEN memUpdateEntries(memState, entries)
                  ELSE [routed EXCEPT !.store = docs(throwAt)])
  /\ last' = [Done("updateEntries", Nil, "", Len(entries), throwAt = 0)
                EXCEPT !.batch = entries]
  /\ UNCHANGED <<sync, handles, inflight>>

\* in-memory destroy(entryId): entry.sys throws for an entry not cached,
\* before anything else; otherwise cache.del, then onDestroy, then
\* deleteRoute and the type index, which a throw of the hook never reaches
CbMemDestroy(entryId, throws) ==
  /\ backend = "memory" /\ Issue(1)
  /\ LET entry   == memEntry(memState, entryId)
         deleted == [memState EXCEPT !.store[entryId] = Nil]
     IN IF memDestroyThrows(memState, entryId)
        THEN /\ ~throws
             /\ MemSet(memState)
             /\ hooks' = <<>>
             /\ last' = Done("destroy", entry, entryId, 0, FALSE)
        ELSE /\ MemSet(IF throws THEN deleted
                       ELSE memDestroy(memState, entryId))
             /\ hooks' = <<HookCall("onDestroy", entry, deleted, throws)>>
             /\ last' = Done("destroy", entry, entryId, 0, ~throws)
  /\ UNCHANGED <<sync, handles, inflight>>

\* networked update(entry): `await transaction.exec()`, then onUpdate
CbRedisUpdate(entry, throws) ==
  /\ backend = "redis" /\ Issue(1)
  /\ RedisSet(redisUpdate(redisState, entry))
  /\ hooks' = <<HookCall("onUpdate", entry,
                         redisUpdate(redisState, entry), throws)>>
  /\ last' = Done("update", entry, entry.id, 1, ~throws)
  /\ UNCHANGED <<sync, handles, inflight>>

\* networked updateEntries(entries): Promise.all of the updates; every
\* transaction is sent before the first reply, the j-th onUpdate is called
\* on the j-th reply, and a throw rejects that update only
CbRedisUpdateEntries(entries, throwAt) ==
  /\ backend = "redis" /\ Issue(Len(entries))
  /\ throwAt \in 0..Len(entries)
  /\ RedisSet(redisUpdateEntries(redisState, entries))
  /\ hooks' = [j \in 1..Len(entries) |->
                 HookCall("onUpdate", entries[j],
                          redisUpdateEntries(redisState, SubSeq(entries, 1, j)),
                          j = throwAt)]
  /\ last' = [Done("updateEntries", Nil, "", Len(entries), throwAt = 0)
                EXCEPT !.batch = entries]
  /\ UNCHANGED <<sync, handles, inflight>>

\* networked destroy(entryId): returns early without a document, otherwise
\* `await transaction.exec()`, then onDestroy
CbRedisDestroy(entryId, throws) ==
  /\ backend = "redis" /\ Issue(1)
  /\ LET entry == redisEntry(redisState, entryId)
     IN IF redisDestroySkips(redisState, entryId)
        THEN /\ ~throws
             /\ hooks' = <<>>
             /\ last' = Done("destroy", entry, entryId, 0, TRUE)
        ELSE /\ hooks' = <<HookCall("onDestroy", entry,
                                    redisDestroy(redisState, entryId), throws)>>
             /\ last' = Done("destroy", entry, entryId, 0, ~throws)
  /\ RedisSet(redisDestroy(redisState, entryId))
  /\ UNCHANGED <<sync, handles, inflight>>

\* the entries the hooks are exercised with
CbEntries ==
  {[kind |-> "entry", id |-> "A1", type |-> "page", slug |-> "home"],
   [kind |-> "entry", id |-> "A1", type |-> "press", slug |-> NoSlug],
   [kind |-> "entry", id |-> "B2", type |-> "page", slug |-> "home"],
   [kind |-> "entry", id |-> "B2", type |-> "press",
    slug |-> "terms-conditions"]}

CbPages ==
  UNION {[1..n -> CbEntries] :
           n \in 0..(IF MaxWork - work < MaxBatch THEN MaxWork - work
                     ELSE MaxBatch)}

NextCallbacks ==
  \/ \E entry \in CbEntries, throws \in BOOLEAN : CbMemUpdate(entry, throws)
  \/ \E entries \in CbPages, throwAt \in 0..MaxBatch,
        routesFirst \in BOOLEAN :
       CbMemUpdateEntries(entries, throwAt, routesFirst)
  \/ \E entryId \in Ids, throws \in BOOLEAN : CbMemDestroy(entryId, throws)
  \/ \E entry \in CbEntries, throws \in BOOLEAN : CbRedisUpdate(entry, throws)
  \/ \E entries \in CbPages, throwAt \in 0..MaxBatch :
       CbRedisUpdateEntries(entries, throwAt)
  \/ \E entryId \in Ids, throws \in BOOLEAN : CbRedisDestroy(entryId, throws)

SpecCallbacks == Init /\ [][NextCallbacks]_vars

\* what the state st holds of entry e: a document under its ID, its ID
\* under its type, its slug leading to it
Holds(st, e) ==
  {f \in {"document", "type", "route"} :
     \/ f = "document" /\ st.store[e.id] # Nil
     \/ f = "type" /\ ListedCount(st, e.type, e.id) > 0
     \/ f = "route" /\ <<e.slug, e.type, e.id>> \in RouteTable(st)}

\* C29: onUpdate(entry) runs only after the entry-store, type-index and
\* route writes of that update have committed (what the completed operation
\* holds of the entry, the hook already saw), onDestroy(id) runs only after
\* the removals of that destroy have committed (what the hook still saw of
\* the entry, the completed operation still holds), and destroy of an
\* absent entry does not invoke onDestroy.
C29_HooksAfterCommit ==
  /\ \A k \in 1..Len(hooks) :
       /\ hooks[k].hook = "onUpdate"
            => Holds(State, hooks[k].e) \subseteq Holds(hooks[k].saw, hooks[k].e)
       /\ hooks[k].hook = "onDestroy"
            => Holds(hooks[k].saw, hooks[k].e) \subseteq Holds(State, hooks[k].e)
  /\ (last.op = "destroy" /\ ~IsEntry(last.e)) => hooks = <<>>

\* the last operation, run on st with hooks that return
Completed(st, op) ==
  IF op.op = "update" THEN Update(st, op.e)
  ELSE IF op.op = "updateEntries" THEN UpdateEntries(st, op.batch)
  ELSE Destroy(st, op.id)

\* C30: if onUpdate or onDestroy throws synchronously, the mutation that
\* triggered it stays fully applied - the state is the one the operation
\* leaves when its hooks return - and the error reaches the caller of
\* update, updateEntries or destroy.
C30_HookThrowKeepsMutation ==
  [][(\E k \in 1..Len(hooks') : hooks'[k].threw)
       => /\ State' = Completed(State, last')
          /\ ~last'.ok]_vars

\* ----------------------------------------------------------------- C31
\* the backend commands that write
WriteSteps == {"set", "del", "deleteRoute", "types.set", "exec"}

\* C31: a backend write failure during update or destroy is surfaced to the
\* caller of that operation - when a writing command of the call that
\* completed last failed, the call threw or its promise rejected.
C31_WriteFailureSurfaces ==
  last.fault \in WriteSteps => ~last.ok

\* ----------------------------------------------------------------- C32
\* every mapping routes() can return has slug leading to entryId
RoutesTo(st, slug, entryId) ==
  \A routes \in RoutesOf(st) :
    \E r \in routes : r[1] = slug /\ r[3] = entryId

\* C32: when an entry stored with slug s1, which routes() maps to it, is
\* updated to another slug s2 that no route uses yet, update does not purge
\* the old route - afterwards routes() maps s1 to the entry's ID alongside
\* s2.
C32_OldRouteKept ==
  [][(/\ last'.op = "update" /\ last'.ok
      /\ IsEntry(EntryOf(State, last'.id))
      /\ EntryOf(State, last'.id).slug \in Slugs
      /\ last'.e.slug \in Slugs \ {EntryOf(State, last'.id).slug}
      /\ RoutesTo(State, EntryOf(State, last'.id).slug, last'.id)
      /\ \A r \in RouteTable(State) : r[1] # last'.e.slug)
       => /\ RoutesTo(State', EntryOf(State, last'.id).slug, last'.id)
          /\ RoutesTo(State', last'.e.slug, last'.id)]_vars

\* ----------------------------------------------------------------- C33
\* deleteRoute(entryId) called on its own (in-memory; the networked class
\* has no such method)
MemDeleteRoute(entryId) ==
  /\ backend = "memory" /\ Issue(1)
  /\ MemSet(memDeleteRoute(memState, entryId))
  /\ last' = Done("deleteRoute", Nil, entryId, 0, TRUE)
  /\ UNCHANGED <<sync, handles, hooks, inflight>>

NextDeleteRoute ==
  \/ NextRoutes
  \/ \E entryId \in Ids : MemDeleteRoute(entryId)

\* the route table under calls of updateRoutes and deleteRoute
SpecDeleteRoute == Init /\ [][NextDeleteRoute]_vars

\* C33: deleteRoute(entryId) removes every route whose value has that entry
\* ID, leaves all routes of other entries unchanged, and is a no-op when no
\* route matches - the table afterwards is the table before without the
\* routes to entryId.
C33_DeleteRouteRemovesAll ==
  [][(last'.op = "deleteRoute")
       => RoutePairs(memRoutes(State'))
            = {r \in RoutePairs(memRoutes(State)) : r[3] # last'.id}]_vars

\* ============================== entriesOfType and routes as calls (C34-37)
\* The filters a caller passes to entriesOfType: none, or a predicate on
\* entries.  A predicate is a JavaScript function (or a lodash shorthand)
\* and can be applied to anything; DocPred is its value on an entry
\* document, IdPred its value on an ID string.
\*   hasSlug   (e) => !!(e.fields && e.fields.slug)   a string has no fields
\*   notPress  _.negate(_.matches({sys: {contentType: {sys: {id: 'press'}}}}))
\*                                                    a string matches nothing
Filters == {"none", "hasSlug", "notPress"}

DocPred(filter, doc) ==
  IF filter = "hasSlug" THEN doc.slug \notin {NoSlug, ""}
  ELSE IF filter = "notPress" THEN doc.type # "press"
  ELSE TRUE

IdPred(filter, id) ==
  IF filter = "hasSlug" THEN FALSE ELSE TRUE

\* the type lists asked for
TypeLists == {<<t>> : t \in Types} \cup {<<"page", "press">>}

\* existing[type] = existing[type] || [] for each type asked for: the
\* in-memory entriesOfType does this on the object cache.get returned,
\* which a store that hands out its own object then holds
memTouchTypes_Reset(st, types) ==
  [st EXCEPT !.types = [t \in Types |->
     IF t \in Range(types) THEN <<>> ELSE st.types[t]]]

memTouchTypes(st, types) ==
  [st EXCEPT !.types = [t \in Types |->
     IF t \in Range(types)
     THEN (IF st.types[t] # <<>> THEN st.types[t] ELSE <<>>)
     ELSE st.types[t]]]

\* in-memory entriesOfType(types, filter): _.filter on the member IDs, then
\* entry(id) for each
MemEntriesOfType(types, filter) ==
  /\ backend = "memory"
  /\ MemSet(memTouchTypes(memState, types))
  /\ last' = [Done("entriesOfType", Nil, "", 0, TRUE)
                EXCEPT !.batch = memEntriesOfType(memState, types,
                                   [id \in Ids |-> IdPred(filter, id)]),
                       !.types = types, !.filter = filter]
  /\ UNCHANGED <<work, sync, handles, hooks, inflight>>

\* networked entriesOfType(types): the method has no filter parameter, a
\* second argument is ignored
RedisEntriesOfType(types, filter) ==
  /\ backend = "redis"
  /\ \E docs \in redisEntriesOfType(redisState, types) :
       last' = [Done("entriesOfType", Nil, "", 0, TRUE)
                  EXCEPT !.batch = docs, !.types = types, !.filter = filter]
  /\ UNCHANGED <<backend, env, store, mTypes, mRoutes, rTypes, rRoutes,
                 work, sync, handles, hooks, inflight>>

\* routes(), either class; the mapping returned is recorded as the list of
\* its properties
Routes ==
  /\ \E obj \in (IF backend = "memory" THEN {memRoutes(memState)}
                 ELSE redisRoutes(redisState)) :
       last' = [Done("routes", Nil, "", 0, TRUE) EXCEPT !.batch = obj]
  /\ UNCHANGED <<backend, env, store, mTypes, mRoutes, rTypes, rRoutes,
                 work, sync, handles, hooks, inflight>>

\* the entries the queries are exercised on
QueryEntries ==
  {[kind |-> "entry", id |-> "A1", type |-> "page", slug |-> "home"],
   [kind |-> "entry", id |-> "A1", type |-> "press", slug |-> NoSlug],
   [kind |-> "entry", id |-> "B2", type |-> "page", slug |-> NoSlug],
   [kind |-> "entry", id |-> "B2", type |-> "press",
    slug |-> "terms-conditions"]}

QueryPages ==
  UNION {[1..n -> QueryEntries] :
           n \in 0..(IF MaxWork - work < MaxBatch THEN MaxWork - work
                     ELSE MaxBatch)}

NextQuery ==
  \/ \E entry \in QueryEntries : MemUpdate(entry) \/ RedisUpdate(entry)
  \/ \E entries \in QueryPages :
       MemUpdateEntries(entries) \/ RedisUpdateEntries(entries)
  \/ \E entryId \in Ids : MemDestroy(entryId) \/ RedisDestroy(entryId)
  \/ \E entryId \in Ids : Entry(entryId)
  \/ \E types \in TypeLists, filter \in Filters :
       MemEntriesOfType(types, filter) \/ RedisEntriesOfType(types, filter)
  \/ Routes

\* the service with its reads
SpecQuery == Init /\ [][NextQuery]_vars

\* ----------------------------------------------------------------- C34
\* the member ID lists of the types, as entriesOfType can read them
MemberLists(st, types) ==
  IF backend = "memory" THEN {memTypeMembers(st, types)}
  ELSE redisTypeMembers(st, types)

\* the members resolved to documents, then those satisfying the predicate
ResolvedThenFiltered(st, types, filter) ==
  {SelectSeq([j \in 1..Len(ids) |-> EntryOf(st, ids[j])],
             LAMBDA doc : DocPred(filter, doc)) :
     ids \in MemberLists(st, types)}

\* C34: entriesOfType(types, filter) returns exactly the entries of the
\* listed types that satisfy the predicate - the member IDs resolved to
\* entry documents, the filter then applied to those documents - on either
\* backend.
C34_FilterOnEntries ==
  (last.op = "entriesOfType")
    => last.batch \in ResolvedThenFiltered(State, last.types, last.filter)

\* ============================ entriesOfType racing a mutation (C35)
\* entriesOfType reads the member IDs (cache.get(TYPE_KEY) / smembers),
\* awaits, and then reads each entry with entry(id); other calls run in
\* between.

\* the membership read of entriesOfType(type); sound: every ID it read is
\* stored at that moment with this content type
QueryMembers(type) ==
  /\ inflight = <<>>
  /\ \E ids \in MemberLists(State, <<type>>) :
       inflight' = <<[op |-> "entriesOfType", types |-> <<type>>, ids |-> ids,
                      sound |-> \A j \in 1..Len(ids) :
                                  /\ IsEntry(EntryOf(State, ids[j]))
                                  /\ EntryOf(State, ids[j]).type = type]>>
  /\ UNCHANGED <<backend, env, store, mTypes, mRoutes, rTypes, rRoutes,
                 last, work, sync, handles, hooks>>

\* the entry(id) reads of the call in flight, and its result
QueryResolve ==
  /\ inflight # <<>> /\ inflight[1].op = "entriesOfType"
  /\ last' = [Done("entriesOfType", Nil, "", 0, TRUE)
                EXCEPT !.batch = [j \in 1..Len(inflight[1].ids) |->
                                    EntryOf(State, inflight[1].ids[j])],
                       !.types = inflight[1].types]
  /\ inflight' = <<>>
  /\ UNCHANGED <<backend, env, store, mTypes, mRoutes, rTypes, rRoutes,
                 work, sync, handles, hooks>>

NextQueryRace ==
  \/ \E entry \in QueryEntries : MemUpdate(entry) \/ RedisUpdate(entry)
  \/ \E entries \in QueryPages :
       MemUpdateEntries(entries) \/ RedisUpdateEntries(entries)
  \/ \E entryId \in Ids : MemDestroy(entryId) \/ RedisDestroy(entryId)
  \/ \E type \in Types : QueryMembers(type)
  \/ QueryResolve

SpecQueryRace == Init /\ [][NextQueryRace]_vars

\* C35: every element returned by entriesOfType(t) is a stored entry
\* document whose content type is t, never the absent value, including when
\* a destroy of a member runs between the membership read and the entry
\* reads - when every ID the call read as a member was stored with type t
\* at that moment, every element of its result is an entry document of
\* type t.
C35_ResultsAreEntries ==
  [][(/\ inflight # <<>> /\ inflight' = <<>>
      /\ inflight[1].op = "entriesOfType" /\ inflight[1].sound)
       => \A j \in 1..Len(last'.batch) :
            /\ IsEntry(last'.batch[j])
            /\ last'.batch[j].type = inflight[1].types[1]]_vars

\* ======================================= the route member as a string (C36)
\* The networked class keeps a route as the string
\* [route, type, entry.sys.id].join(':') and routes() takes it apart with
\* `const [slug, type, uuid] = route.split(':')`.  A string is held here as
\* the sequence of its characters.

\* the longest slug or ID tried
MaxLen == 2

Chars == {"a", "b", ":"}
Texts == UNION {[1..n -> Chars] : n \in 1..MaxLen}

\* parts.join(sep)
RECURSIVE join(_, _)
join(parts, sep) ==
  IF parts = <<>> THEN <<>>
  ELSE IF Len(parts) = 1 THEN parts[1]
  ELSE parts[1] \o <<sep>> \o join(Tail(parts), sep)

\* text.split(sep): the pieces between the separators, empty ones included
RECURSIVE split(_, _)
split(text, sep) ==
  IF \A j \in 1..Len(text) : text[j] # sep THEN <<text>>
  ELSE LET at == CHOOSE j \in 1..Len(text) :
                   /\ text[j] = sep
                   /\ \A k \in 1..(j - 1) : text[k] # sep
       IN <<SubSeq(text, 1, at - 1)>>
            \o split(SubSeq(text, at + 1, Len(text)), sep)

\* const [slug, type, uuid] = pieces
Destructure(pieces) ==
  <<pieces[1], pieces[2], pieces[3]>>

\* update(entry): the member added to '$routes', for any slug, type and ID
RouteMember ==
  /\ backend = "redis" /\ last.op = "new"
  /\ \E slug \in Texts, type \in Texts, id \in Texts :
       last' = [Done("sadd", Nil, "", 0, TRUE)
                  EXCEPT !.remote = <<slug, type, id>>,
                         !.batch = join(<<slug, type, id>>, ":")]
  /\ UNCHANGED <<backend, env, store, mTypes, mRoutes, rTypes, rRoutes,
                 work, sync, handles, hooks, inflight>>

\* routes(): the member taken apart into the key and the value's two parts
RouteOfMember ==
  /\ backend = "redis" /\ last.op = "sadd"
  /\ last' = [Done("routes", Nil, "", 0, TRUE)
                EXCEPT !.remote = last.remote,
                       !.batch = Destructure(split(last.batch, ":"))]
  /\ UNCHANGED <<backend, env, store, mTypes, mRoutes, rTypes, rRoutes,
                 work, sync, handles, hooks, inflight>>

NextEncode == RouteMember \/ RouteOfMember

SpecEncode == InitRace /\ [][NextEncode]_vars

\* C36: route encoding round trip on the networked backend - for every
\* slug, type ID and entry ID, storing the route as 'slug:typeId:entryId'
\* and reading it back through routes() yields the key slug with the value
\* [typeId, entryId], including when the slug or an ID contains ':'.
C36_RouteRoundTrip ==
  (last.op = "routes") => last.batch = last.remote

C38_LazyHandle ==
  /\ (last.op = "new") => handles = 0
  /\ (last.op # "new") => handles = 1

\* C38 (amended): the backend handle is created by the constructor, and
\* exactly one handle is created and reused for the instance's whole
\* lifetime - from construction on, whatever operations have run, the
\* instance has created exactly one handle.
C38_OneHandleFromConstruction ==
  handles = 1

\* C38's case: the instance has run several operations, the last of them a
\* destroy that found its entry, on the one handle.
C38_Witness ==
  /\ handles = 1 /\ work >= 2
  /\ last.op = "destroy" /\ last.ok /\ IsEntry(last.e)

====
